---- MODULE Spec2Model ----
(***************************************************************************)
(* minifzf: the interactive selection engine of src/minifzf/selector.py,   *)
(* with the matcher of src/minifzf/search.py and the key names of          *)
(* src/minifzf/_key.py.                                                    *)
(*                                                                         *)
(* A Python str is a sequence of one-character strings (so "" is <<>>), a  *)
(* row is a sequence of fields, a dataset a sequence of rows.  Indices are *)
(* Python's (0-based); PyIndex maps them onto TLA+ sequences.              *)
(***************************************************************************)
EXTENDS Integers, Sequences, FiniteSets, TLC

----------------------------------------------------------------------------
(* Bounds of the model *)

\* longest query that can be typed
MaxQuery == 1
\* largest number of dataset rows
MaxRows == 3
\* tallest terminal
MaxH == 7

----------------------------------------------------------------------------
(* src/minifzf/_key.py *)

ENTER == "enter"
ESC == "esc"
SPACE == "space"
BACKSPACE == "backspace"
UP == "up"
DOWN == "down"
ACTIVATE_SEARCH_KEYS == {"/", "f"}

\* READABLE_TO_CHAR.get(key, key); the dict literal names "enter" twice and
\* the later value, "\r", is the one it keeps
normalize(key) ==
    CASE key = "tab" -> "\t"
      [] key = "enter" -> "\r"
      [] key = "space" -> " "
      [] OTHER -> key

----------------------------------------------------------------------------
(* Python built-ins used by the code *)

Min(a, b) == IF a <= b THEN a ELSE b
Max(a, b) == IF a >= b THEN a ELSE b

\* the characters str.strip() removes
Whitespace == {" ", "\t", "\n", "\r"}

RECURSIVE lstrip(_)
lstrip(s) == IF s # <<>> /\ Head(s) \in Whitespace THEN lstrip(Tail(s)) ELSE s

RECURSIVE rstrip(_)
rstrip(s) ==
    IF s # <<>> /\ s[Len(s)] \in Whitespace
    THEN rstrip(SubSeq(s, 1, Len(s) - 1))
    ELSE s

strip(s) == rstrip(lstrip(s))

\* case folding of regex.IGNORECASE, on the letters the model uses
lower(c) ==
    CASE c = "A" -> "a"
      [] c = "D" -> "d"
      [] c = "Q" -> "q"
      [] OTHER -> c

\* `sub in s` on two str
str_in(sub, s) ==
    \E i \in 0..(Len(s) - Len(sub)) : SubSeq(s, i + 1, i + Len(sub)) = sub

\* `key in string.printable` for a key name: string.printable is one str, so
\* the test is a substring test; of the key names sshkeyboard produces only
\* the one-character ones are substrings of it
printable == {"a", "A", "d", "D", "f", "q", "Q", "n", "o", "w", "/", " ", "\t", "\r", "\n"}

\* `key in _key.DOWN`: _key.DOWN is the str 'down', so this too is a
\* substring test
in_DOWN(key) == key \in {"d", "o", "w", "n", "do", "ow", "wn", "dow", "own", "down"}

\* seq[i] with Python's negative indices; "IndexError" when out of range
InRange(seq, i) == -Len(seq) <= i /\ i < Len(seq)
PyIndex(seq, i) == IF i >= 0 THEN seq[i + 1] ELSE seq[Len(seq) + i + 1]

\* any(iterable): some element is truthy; a str is truthy iff non-empty
py_any(seq) == \E i \in 1..Len(seq) : seq[i] # <<>>

----------------------------------------------------------------------------
(* src/minifzf/search.py *)

\* the compiled pattern c1(.*?)c2(.*?)...cn matched with its first character
\* at position i of value: characters compare case-insensitively, and `.`
\* does not match a newline
RECURSIVE match_from(_, _, _)
match_from(p, value, i) ==
    /\ i <= Len(value)
    /\ lower(value[i]) = lower(p[1])
    /\ \/ Len(p) = 1
       \/ \E j \in (i + 1)..Len(value) :
            /\ \A k \in (i + 1)..(j - 1) : value[k] # "\n"
            /\ match_from(Tail(p), value, j)

\* pattern.search(value); the pattern of an empty (stripped) query is empty
\* and matches every value
pattern_search(p, value) ==
    p = <<>> \/ \E i \in 1..Len(value) : match_from(p, value, i)

\* line 35: the test that decides whether a value is yielded
matches(query, value) ==
    str_in(query, value) \/ pattern_search(strip(query), value)

\* the values the generator yields, in order
iter_search_results(query, possibilities) ==
    SelectSeq(possibilities, LAMBDA value : matches(query, value))

----------------------------------------------------------------------------
(* src/minifzf/selector.py: the Selector object.                           *)
(* A Selector is a record; every method is an operator from the object    *)
(* (and the terminal height h it reads from self._live.console.height) to  *)
(* the object after the call.  A method of several statements is the       *)
(* composition of one operator per statement, so that the threads of the   *)
(* program can also be interleaved between statements (SpecRace below).    *)

\* the value of Python's None, for _selected and for the result of select()
None == [kind |-> "none"]

\* _no_row_height as __init__ first sets it (line 45)
BaseNoRowHeight == 3

search_rows(o_rows, query) ==
    IF query = <<>>
    THEN o_rows
    ELSE SelectSeq(o_rows, LAMBDA r : py_any(iter_search_results(query, r)))

\* rows_count(include_visible=True): <<row_count, visibles>>
rows_count(s, h) ==
    LET row_count == IF ~s.searching THEN s.inital_row_count ELSE Len(s.rows)
        visibles == Min(h - s.no_row_height, row_count)
    IN  IF visibles < h
        THEN <<row_count, visibles>>
        ELSE <<row_count, visibles - s.no_row_height>>

\* min(*self.rows_count(include_visible=True))
min_rows_count(s, h) == Min(rows_count(s, h)[1], rows_count(s, h)[2])

\* __init__(rows, headers, query) on a terminal of height h.  It raises
\* nothing: no statement of it compares the headers with the rows.
Selector(rows, headers, query, h) ==
    LET s0 == [ live_started |-> FALSE,
                original_rows |-> rows,
                inital_row_count |-> Len(rows),
                rows |-> search_rows(rows, query),
                no_row_height |-> BaseNoRowHeight
                                   + (IF headers # <<>> THEN 2 ELSE 0)
                                   + (IF query # <<>> THEN 1 ELSE 0),
                headers |-> headers,
                show_header |-> (headers # <<>>),
                query |-> query,
                searching |-> (query # <<>>),
                ptr |-> 0,
                start_idx |-> 0,
                end_idx |-> 0,
                selected |-> None ]
    IN  [s0 EXCEPT !.end_idx = min_rows_count(s0, h)]

\* scroll_up, statement by statement
scroll_up_ptr(s) == [s EXCEPT !.ptr = @ - 1]
scroll_up_start(s) == [s EXCEPT !.start_idx = s.ptr]
scroll_up_end(s, h) ==
    [s EXCEPT !.end_idx = Min(rows_count(s, h)[1], s.start_idx + rows_count(s, h)[2])]

scroll_up(s, h) ==
    IF s.ptr <= 0 THEN s
    ELSE LET s1 == scroll_up_ptr(s)
         IN  IF s1.ptr >= s1.start_idx THEN s1
             ELSE scroll_up_end(scroll_up_start(s1), h)

\* scroll_down, statement by statement; rc is the pair rows_count returned
\* in the first statement
scroll_down_ptr(s) == [s EXCEPT !.ptr = @ + 1]
scroll_down_end(s) == [s EXCEPT !.end_idx = s.ptr + 1]
scroll_down_start(s, rc) == [s EXCEPT !.start_idx = Max(0, s.end_idx - rc[2])]

scroll_down(s, h) ==
    LET rc == rows_count(s, h)
    IN  IF s.ptr >= rc[1] - 1 THEN s
        ELSE LET s1 == scroll_down_ptr(s)
             IN  IF s1.ptr < s1.end_idx THEN s1
                 ELSE scroll_down_start(scroll_down_end(s1), rc)

\* the search-activation branch of navigate, statement by statement
activate_searching(s) == [s EXCEPT !.searching = TRUE]
\* activate_height without the row for the query line
activate_height_skipped(s) == s
activate_height(s) == [s EXCEPT !.no_row_height = @ + 1]
activate_end(s, h) ==
    IF s.end_idx > rows_count(s, h)[2] THEN [s EXCEPT !.end_idx = @ - 1] ELSE s

navigate(s, key, h) ==
    IF key = UP THEN scroll_up(s, h)
    ELSE IF in_DOWN(key) THEN scroll_down(s, h)
    ELSE IF key \in ACTIVATE_SEARCH_KEYS
         THEN activate_end(activate_height(activate_searching(s)), h)
    ELSE s

\* update_query with the esc branch leaving the query as it was
update_query_keeps(s, key) ==
    IF key = BACKSPACE
    THEN [s EXCEPT !.query = SubSeq(s.query, 1, Len(s.query) - 1)]
    ELSE IF key = ESC
    THEN [s EXCEPT !.searching = FALSE, !.no_row_height = @ - 1]
    ELSE IF key \in printable
    THEN [s EXCEPT !.query = Append(s.query, key)]
    ELSE s

\* __update_rows after the navigation keys, statement by statement; key is
\* the normalized key
update_query(s, key) ==
    IF key = BACKSPACE
    THEN [s EXCEPT !.query = SubSeq(s.query, 1, Len(s.query) - 1)]
    ELSE IF key = ESC
    THEN [s EXCEPT !.searching = FALSE, !.no_row_height = @ - 1, !.query = <<>>]
    ELSE IF key \in printable
    THEN [s EXCEPT !.query = Append(s.query, key)]
    ELSE s
update_filter(s) == [s EXCEPT !.rows = search_rows(s.original_rows, s.query)]
update_reset(s) == [s EXCEPT !.ptr = 0, !.start_idx = 0]
update_end(s, h) == [s EXCEPT !.end_idx = min_rows_count(s, h)]

update_rows(s, key, h) ==
    LET k == normalize(key)
    IN  IF k \in {UP, DOWN} THEN navigate(s, k, h)
        ELSE update_end(update_reset(update_filter(update_query(s, k))), h)

\* the current_value property; callers test current_value_raises first
current_value_raises(s) == s.rows # <<>> /\ ~InRange(s.rows, s.ptr)
current_value(s) ==
    IF s.rows = <<>> THEN None
    ELSE LET value == PyIndex(s.rows, s.ptr)
         IN  IF Len(value) = 1 THEN [kind |-> "str", value |-> value[1]]
             ELSE IF s.headers # <<>>
             THEN [kind |-> "dict",
                   value |-> [i \in 1..Min(Len(s.headers), Len(value)) |->
                                 <<s.headers[i], value[i]>>]]
             ELSE [kind |-> "list", value |-> value]

\* exit(): self._live.stop() gives the display back; stop_listening() is
\* the variable `listening` of the specification
exit(s) == [s EXCEPT !.live_started = FALSE]

\* __update_idxs_after_resize, statement by statement; rc is the pair
\* rows_count returned in the first statement
resize_start(s, rc) == [s EXCEPT !.start_idx = Max(0, Min(s.ptr, rc[1] - rc[2]))]
\* resize_end with one row more than the terminal has room for
resize_end_wide(s, rc) == [s EXCEPT !.end_idx = Min(rc[1], s.start_idx + rc[2] + 1)]
resize_end(s, rc) == [s EXCEPT !.end_idx = Min(rc[1], s.start_idx + rc[2])]
resize_ptr(s) == [s EXCEPT !.ptr = Min(Max(s.ptr, s.start_idx), s.end_idx - 1)]

update_idxs_after_resize(s, h) ==
    LET rc == rows_count(s, h)
    IN  resize_ptr(resize_end(resize_start(s, rc), rc))

\* sendkey up to its closing refresh()
sendkey_exits(s, key) == key = ENTER \/ (~s.searching /\ key \in {ESC, "q"})
\* sendkey with the quit keys tested before the searching flag
sendkey_quits_first(s, key, h) ==
    IF key = ENTER THEN exit([s EXCEPT !.selected = current_value(s)])
    ELSE IF key \in {ESC, "q"} THEN navigate(exit(s), key, h)
    ELSE IF s.searching THEN update_rows(s, key, h)
    ELSE navigate(s, key, h)

sendkey(s, key, h) ==
    IF key = ENTER THEN exit([s EXCEPT !.selected = current_value(s)])
    ELSE IF s.searching THEN update_rows(s, key, h)
    ELSE navigate(IF key \in {ESC, "q"} THEN exit(s) ELSE s, key, h)

\* what refresh() draws of the object: construct_table slices
\* _rows[_start_idx:_end_idx] and highlights _ptr, construct_layout adds
\* the row count and, when searching, the query
construct_layout(s) ==
    [ ptr |-> s.ptr, start_idx |-> s.start_idx, end_idx |-> s.end_idx,
      n_rows |-> Len(s.rows), searching |-> s.searching, query |-> s.query,
      live |-> s.live_started ]

----------------------------------------------------------------------------
(* The inputs of a session *)

\* the rows ("q","a d"), (""), ("dA",""), ("d q"), ("Q","d"); a dataset is
\* a prefix of this list
Pool ==
    << << <<"q">>, <<"a", " ", "d">> >>,
       << <<>> >>,
       << <<"d", "A">>, <<>> >>,
       << <<"d", " ", "q">> >>,
       << <<"Q">>, <<"d">> >> >>
Dataset(n) == SubSeq(Pool, 1, n)
RowCounts == 0..MaxRows

\* no headers, or two headers (which fit the first row, not the second)
HeaderChoices == {<<>>, <<"id", "name">>}

\* the query argument: None or "" (the same to __init__), or "d"
InitQueries == {<<>>, <<"d">>}

Heights == 1..MaxH

\* the key names the input source delivers
Keys == {UP, DOWN, ENTER, ESC, BACKSPACE, SPACE, "left", "q", "/", "d"}

----------------------------------------------------------------------------
(* The state of a session: select() on the main thread, sendkey() as the   *)
(* callback of listen_keyboard, resize() on the watcher thread.            *)

VARIABLES
    self,        \* the Selector object
    console_h,   \* the height of the terminal, as console.height reads it
    resized,     \* resize(): Console().size differs from curr_size
    frame,       \* what the last refresh() handed to the display, and by which thread
    main_pc,     \* where select() is
    listening,   \* listen_keyboard is delivering keys (no stop_listening() yet)
    stop_event,  \* resize_check_stop_event
    watcher,     \* the state of resize_cb_thread
    error,       \* the exception that is propagating out of select(), if any
    result,      \* the value select() returned
    last,        \* history: the last event of the input source (a key, "interrupt", "failure")
    key_pc,      \* SpecRace: where the running sendkey() call is, its locals
    watcher_pc   \* SpecRace: where the running pass of resize() is, its locals

vars == <<self, console_h, resized, frame, main_pc, listening, stop_event,
          watcher, error, result, last, key_pc, watcher_pc>>

NoFrame == [drawn |-> FALSE]
\* no sendkey() call is running; no pass of resize() is running.  rc is
\* the pair a thread got from rows_count and still holds, mut tells whether
\* the running operation has changed the object
KeyIdle == [pc |-> "idle", key |-> "none", rc |-> <<0, 0>>, mut |-> FALSE]
WatcherIdle == [pc |-> "wait", rc |-> <<0, 0>>, mut |-> FALSE]

\* refresh() by a thread: the layout handed to self._live.update
refresh(s, by) == [drawn |-> TRUE, by |-> by, shown |-> construct_layout(s)]

\* the state once the caller has constructed the Selector (the larger
\* terminals and datasets are listed first)
InitWith(heights, rowCounts, headerChoices, queries) ==
    /\ \E d \in 0..(MaxH - 1) : (MaxH - d) \in heights /\ console_h = MaxH - d
    /\ \E d \in 0..MaxRows, headers \in headerChoices, query \in queries :
          /\ (MaxRows - d) \in rowCounts
          /\ self = Selector(Dataset(MaxRows - d), headers, query, console_h)
    /\ resized = FALSE
    /\ frame = NoFrame
    /\ main_pc = "new"
    /\ listening = FALSE
    /\ stop_event = FALSE
    /\ watcher = "unstarted"
    /\ error = "none"
    /\ result = None
    /\ last = "none"
    /\ key_pc = KeyIdle
    /\ watcher_pc = WatcherIdle

Init == InitWith(Heights, RowCounts, HeaderChoices, InitQueries)

\* the user resizes the terminal (to another height, or to another width of
\* the same height): any thread that reads console.height sees it at once,
\* and the watcher's comparison with curr_size will find a change
TerminalResize(h) ==
    /\ main_pc \in {"new", "listen"}
    /\ console_h' = h
    /\ resized' = (watcher = "running")
    /\ UNCHANGED <<self, frame, main_pc, listening, stop_event, watcher, error,
                   result, last, key_pc, watcher_pc>>

\* select(), lines 302-310: start the display, draw, start the watcher (which
\* reads curr_size), enter listen_keyboard
Start ==
    /\ main_pc = "new"
    /\ self' = [self EXCEPT !.live_started = TRUE]
    /\ frame' = refresh(self', "main")
    /\ watcher' = "running"
    /\ resized' = FALSE
    /\ listening' = TRUE
    /\ main_pc' = "listen"
    /\ UNCHANGED <<console_h, stop_event, error, result, last, key_pc, watcher_pc>>

\* a key may be delivered: listen_keyboard is waiting for one, and a
\* printable key still fits the bound on the query
KeyReady(key) ==
    /\ main_pc = "listen"
    /\ listening
    /\ key_pc.pc = "idle"
    /\ (self.searching /\ normalize(key) \in printable) => Len(self.query) < MaxQuery

\* sendkey(key) as one step: the whole callback, its closing refresh()
\* included.  When exit() has called stop_listening(), listen_keyboard
\* returns and select() goes on to its finally clause.  When current_value
\* raises IndexError the callback ends there, without exit() or refresh().
SendKey(key) ==
    /\ KeyReady(key)
    /\ last' = key
    /\ IF key = ENTER /\ current_value_raises(self)
       THEN /\ error' = "IndexError"
            /\ listening' = FALSE
            /\ main_pc' = "finally"
            /\ UNCHANGED <<self, frame>>
       ELSE /\ self' = sendkey(self, key, console_h)
            /\ frame' = refresh(self', "key")
            /\ listening' = ~sendkey_exits(self, key)
            /\ main_pc' = IF sendkey_exits(self, key) THEN "finally" ELSE "listen"
            /\ error' = error
    /\ UNCHANGED <<console_h, resized, stop_event, watcher, result, key_pc, watcher_pc>>

\* KeyboardInterrupt during listen_keyboard: the except clause calls exit()
Interrupt ==
    /\ main_pc = "listen"
    /\ key_pc.pc = "idle"
    /\ self' = exit(self)
    /\ listening' = FALSE
    /\ last' = "interrupt"
    /\ main_pc' = "finally"
    /\ UNCHANGED <<console_h, resized, frame, stop_event, watcher, error, result,
                   key_pc, watcher_pc>>

\* listen_keyboard raises anything else: no except clause takes it, the
\* finally clause runs and the exception propagates
InputFailure ==
    /\ main_pc = "listen"
    /\ key_pc.pc = "idle"
    /\ error' = "InputSourceError"
    /\ listening' = FALSE
    /\ last' = "failure"
    /\ main_pc' = "finally"
    /\ UNCHANGED <<self, console_h, resized, frame, stop_event, watcher, result,
                   key_pc, watcher_pc>>

\* how select() ends once the watcher has been joined: return self._selected,
\* or the pending exception leaves select()
Leave ==
    /\ main_pc' = IF error = "none" THEN "returned" ELSE "raised"
    /\ result' = IF error = "none" THEN self.selected ELSE result

\* the finally clause and the return, lines 313-317, as one step: set the
\* stop event, join the watcher (which is between two passes of its loop,
\* sees the event and ends), leave
Finish ==
    /\ main_pc = "finally"
    /\ stop_event' = TRUE
    /\ watcher' = "ended"
    /\ Leave
    /\ UNCHANGED <<self, console_h, resized, frame, listening, error, last,
                   key_pc, watcher_pc>>

\* resize(), one pass of the loop that found the size changed, as one step:
\* curr_size = new_size, __update_idxs_after_resize(), refresh()
WatcherResize ==
    /\ watcher = "running"
    /\ watcher_pc.pc = "wait"
    /\ ~stop_event
    /\ resized
    /\ resized' = FALSE
    /\ self' = update_idxs_after_resize(self, console_h)
    /\ frame' = refresh(self', "watcher")
    /\ UNCHANGED <<console_h, main_pc, listening, stop_event, watcher, error,
                   result, last, key_pc, watcher_pc>>

\* The session with every callback, every pass of the watcher and the end of
\* select() run to completion before another thread acts.
Next ==
    \/ \E h \in Heights : TerminalResize(h)
    \/ Start
    \/ \E key \in Keys : SendKey(key)
    \/ Interrupt
    \/ InputFailure
    \/ Finish
    \/ WatcherResize

Spec == Init /\ [][Next]_vars

----------------------------------------------------------------------------
(* The same session with the two threads interleaved between statements:   *)
(* no lock guards the object, so a pass of resize() can run between any    *)
(* two statements of a sendkey() call and the other way round.             *)

Step(s, pc, rc) == [s |-> s, pc |-> pc, rc |-> rc]

\* navigate(key) up to the end of its first statement
navigate_begin(s, key, h) ==
    IF key = UP
    THEN IF s.ptr <= 0 THEN Step(s, "refresh", <<0, 0>>)
         ELSE Step(scroll_up_ptr(s), "up_start", <<0, 0>>)
    ELSE IF in_DOWN(key) THEN Step(s, "down_ptr", rows_count(s, h))
    ELSE IF key \in ACTIVATE_SEARCH_KEYS
    THEN Step(activate_searching(s), "act_height", <<0, 0>>)
    ELSE Step(s, "refresh", <<0, 0>>)

\* sendkey(key) up to the end of the first statement of the branch it takes
sendkey_begin(s, key, h) ==
    IF key = ENTER
    THEN Step([s EXCEPT !.selected = current_value(s)], "exit", <<0, 0>>)
    ELSE IF s.searching
    THEN IF normalize(key) \in {UP, DOWN}
         THEN navigate_begin(s, normalize(key), h)
         ELSE Step(update_query(s, normalize(key)), "filter", <<0, 0>>)
    ELSE navigate_begin(IF key \in {ESC, "q"} THEN exit(s) ELSE s, key, h)

\* the next statement of the running sendkey() call
sendkey_next(s, k, h) ==
    CASE k.pc = "exit" -> Step(exit(s), "refresh", k.rc)
      [] k.pc = "up_start" ->
            IF s.ptr >= s.start_idx THEN Step(s, "refresh", k.rc)
            ELSE Step(scroll_up_start(s), "up_end", k.rc)
      [] k.pc = "up_end" -> Step(scroll_up_end(s, h), "refresh", k.rc)
      [] k.pc = "down_ptr" ->
            IF s.ptr >= k.rc[1] - 1 THEN Step(s, "refresh", k.rc)
            ELSE Step(scroll_down_ptr(s), "down_end", k.rc)
      [] k.pc = "down_end" ->
            IF s.ptr < s.end_idx THEN Step(s, "refresh", k.rc)
            ELSE Step(scroll_down_end(s), "down_start", k.rc)
      [] k.pc = "down_start" -> Step(scroll_down_start(s, k.rc), "refresh", k.rc)
      [] k.pc = "act_height" -> Step(activate_height(s), "act_end", k.rc)
      [] k.pc = "act_end" -> Step(activate_end(s, h), "refresh", k.rc)
      [] k.pc = "filter" -> Step(update_filter(s), "reset", k.rc)
      [] k.pc = "reset" -> Step(update_reset(s), "upd_end", k.rc)
      [] k.pc = "upd_end" -> Step(update_end(s, h), "refresh", k.rc)

\* the object once the running sendkey() call has run on undisturbed to its
\* closing refresh()
RECURSIVE sendkey_rest(_, _, _)
sendkey_rest(s, k, h) ==
    IF k.pc \in {"idle", "refresh"} THEN s
    ELSE LET n == sendkey_next(s, k, h)
         IN  sendkey_rest(n.s, [k EXCEPT !.pc = n.pc], h)

\* the next statement of the running __update_idxs_after_resize()
resize_next(s, w) ==
    CASE w.pc = "start" -> Step(resize_start(s, w.rc), "end", w.rc)
      [] w.pc = "end" -> Step(resize_end(s, w.rc), "ptr", w.rc)
      [] w.pc = "ptr" -> Step(resize_ptr(s), "refresh", w.rc)

RECURSIVE resize_rest(_, _)
resize_rest(s, w) ==
    IF w.pc \in {"wait", "refresh"} THEN s
    ELSE LET n == resize_next(s, w)
         IN  resize_rest(n.s, [w EXCEPT !.pc = n.pc])

\* listen_keyboard calls sendkey(key): the first statement
KeyBegin(key) ==
    /\ KeyReady(key)
    /\ last' = key
    /\ IF key = ENTER /\ current_value_raises(self)
       THEN /\ error' = "IndexError"
            /\ listening' = FALSE
            /\ main_pc' = "finally"
            /\ UNCHANGED <<self, key_pc>>
       ELSE /\ LET n == sendkey_begin(self, key, console_h)
               IN  /\ self' = n.s
                   /\ key_pc' = [pc |-> n.pc, key |-> key, rc |-> n.rc,
                                 mut |-> (n.s # self)]
            /\ listening' = ~(~self.searching /\ key \in {ESC, "q"})
            /\ UNCHANGED <<error, main_pc>>
    /\ UNCHANGED <<console_h, resized, frame, stop_event, watcher, result, watcher_pc>>

\* the next statement of the running sendkey() call
KeyStep ==
    /\ key_pc.pc \notin {"idle", "refresh"}
    /\ LET n == sendkey_next(self, key_pc, console_h)
       IN  /\ self' = n.s
           /\ key_pc' = [key_pc EXCEPT !.pc = n.pc, !.mut = @ \/ n.s # self]
    /\ listening' = (listening /\ key_pc.pc # "exit")
    /\ UNCHANGED <<console_h, resized, frame, main_pc, stop_event, watcher, error,
                   result, last, watcher_pc>>

\* the refresh() that closes sendkey(); after stop_listening()
\* listen_keyboard then returns
KeyRefresh ==
    /\ key_pc.pc = "refresh"
    /\ frame' = refresh(self, "key")
    /\ key_pc' = KeyIdle
    /\ main_pc' = IF listening THEN "listen" ELSE "finally"
    /\ UNCHANGED <<self, console_h, resized, listening, stop_event, watcher, error,
                   result, last, watcher_pc>>

\* finally: resize_check_stop_event.set()
SetStopEvent ==
    /\ main_pc = "finally"
    /\ stop_event' = TRUE
    /\ main_pc' = "join"
    /\ UNCHANGED <<self, console_h, resized, frame, listening, watcher, error,
                   result, last, key_pc, watcher_pc>>

\* Join without the wait for the watcher thread
Join_no_wait ==
    /\ main_pc = "join"
    /\ Leave
    /\ UNCHANGED <<self, console_h, resized, frame, listening, stop_event, watcher,
                   error, last, key_pc, watcher_pc>>

\* finally: resize_cb_thread.join() returns once the watcher has ended;
\* then select() leaves
Join ==
    /\ main_pc = "join"
    /\ watcher = "ended"
    /\ Leave
    /\ UNCHANGED <<self, console_h, resized, frame, listening, stop_event, watcher,
                   error, last, key_pc, watcher_pc>>

\* resize(): the wait timed out with the stop event clear, the size is found
\* changed, curr_size = new_size, and __update_idxs_after_resize() reads
\* rows_count
WatcherBegin ==
    /\ watcher = "running"
    /\ watcher_pc.pc = "wait"
    /\ ~stop_event
    /\ resized
    /\ resized' = FALSE
    /\ watcher_pc' = [pc |-> "start", rc |-> rows_count(self, console_h), mut |-> FALSE]
    /\ UNCHANGED <<self, console_h, frame, main_pc, listening, stop_event, watcher,
                   error, result, last, key_pc>>

\* the next statement of __update_idxs_after_resize()
WatcherStep ==
    /\ watcher_pc.pc \in {"start", "end", "ptr"}
    /\ LET n == resize_next(self, watcher_pc)
       IN  /\ self' = n.s
           /\ watcher_pc' = [watcher_pc EXCEPT !.pc = n.pc, !.mut = @ \/ n.s # self]
    /\ UNCHANGED <<console_h, resized, frame, main_pc, listening, stop_event, watcher,
                   error, result, last, key_pc>>

\* the refresh() that closes the pass
WatcherRefresh ==
    /\ watcher_pc.pc = "refresh"
    /\ frame' = refresh(self, "watcher")
    /\ watcher_pc' = WatcherIdle
    /\ UNCHANGED <<self, console_h, resized, main_pc, listening, stop_event, watcher,
                   error, result, last, key_pc>>

\* resize() sees the stop event, in the loop test or in wait(), and returns
WatcherStop ==
    /\ watcher = "running"
    /\ watcher_pc.pc = "wait"
    /\ stop_event
    /\ watcher' = "ended"
    /\ UNCHANGED <<self, console_h, resized, frame, main_pc, listening, stop_event,
                   error, result, last, key_pc, watcher_pc>>

\* the terminal heights of the interleaved sessions: room for all the rows
\* of the dataset, or for all but one
RaceHeights == {MaxH - 2, MaxH}

NextRace ==
    \/ \E h \in RaceHeights : TerminalResize(h)
    \/ Start
    \/ \E key \in Keys : KeyBegin(key)
    \/ KeyStep
    \/ KeyRefresh
    \/ Interrupt
    \/ InputFailure
    \/ SetStopEvent
    \/ Join
    \/ WatcherBegin
    \/ WatcherStep
    \/ WatcherRefresh
    \/ WatcherStop

\* the sessions on the largest dataset, without headers or initial query
InitRace == InitWith(RaceHeights, {MaxRows}, {<<>>}, {<<>>})

SpecRace == InitRace /\ [][NextRace]_vars

----------------------------------------------------------------------------
(* The end of a session: the callbacks whole, the finally clause of        *)
(* select() and the loop of resize() statement by statement.               *)

\* the main thread in the finally clause; the watcher thread in its loop
FinallyClause == SetStopEvent \/ Join
WatcherThread == WatcherBegin \/ WatcherStep \/ WatcherRefresh \/ WatcherStop

NextStop ==
    \/ \E h \in RaceHeights : TerminalResize(h)
    \/ Start
    \/ \E key \in Keys : SendKey(key)
    \/ Interrupt
    \/ InputFailure
    \/ FinallyClause
    \/ WatcherThread

SpecStop == InitRace /\ [][NextStop]_vars

\* Each thread goes on running: the finally clause and the loop of resize()
\* take their next statement (stop_event.wait has a timeout of 0.5 s, the
\* watcher is a thread of its own).  Nothing obliges the user to press a key
\* or the terminal to change.
FairStop == WF_vars(FinallyClause) /\ WF_vars(WatcherThread)

SpecStopFair == SpecStop /\ FairStop

----------------------------------------------------------------------------
(* The claims *)

\* FilteredRows is self.rows; the viewport is (ptr, start_idx, end_idx)
FilteredRows == self.rows
ViewportOK(s) ==
    /\ 0 <= s.start_idx
    /\ s.start_idx <= s.ptr
    /\ s.ptr < s.end_idx
    /\ s.end_idx <= Len(s.rows)

\* C1: in every reachable state with FilteredRows non-empty,
\* 0 <= window_start <= cursor < window_end <= len(FilteredRows)
C1_ViewportInvariant == FilteredRows # <<>> => ViewportOK(self)

\* the selection that stands for a row: current_value gives the only field
\* of a one-field row, a dict of a row under headers, else the list
Denotes(sel, row, headers) ==
    \/ sel.kind = "str" /\ row = <<sel.value>>
    \/ sel.kind = "list" /\ sel.value = row
    \/ /\ sel.kind = "dict"
       /\ Len(sel.value) = Len(row)
       /\ \A i \in 1..Len(row) : sel.value[i] = <<headers[i], row[i]>>

\* C4: enter, searching or not, ends the session, and select() returns the
\* row of FilteredRows at the cursor as it was then, or None when
\* FilteredRows is empty
C4_EnterCommits ==
    [][ /\ SendKey(ENTER) =>
            /\ ~listening' /\ main_pc' = "finally" /\ error' = "none"
            /\ IF FilteredRows = <<>>
               THEN self'.selected = None
               ELSE /\ 0 <= self.ptr /\ self.ptr < Len(FilteredRows)
                    /\ Denotes(self'.selected, FilteredRows[self.ptr + 1], self.headers)
        /\ (Finish /\ last = ENTER /\ error = "none") =>
            /\ main_pc' = "returned" /\ result' = self.selected ]_vars

\* the keys that stand for a printable character
PrintableKeys == {key \in Keys \ {ENTER} : normalize(key) \in printable}

\* the fields C5 names
C5_Fields(s) == <<s.ptr, s.start_idx, s.end_idx, s.query, s.searching, s.no_row_height>>

\* C5: while not searching, a printable-character key other than 'q', '/'
\* and 'f' changes none of cursor, window, query, searching, reserved_rows
\* and does not end the session
C5_PrintableIgnored ==
    [][ \A key \in PrintableKeys \ {"q", "/", "f"} :
          (SendKey(key) /\ ~self.searching) =>
              /\ C5_Fields(self') = C5_Fields(self)
              /\ main_pc' = "listen" /\ listening' ]_vars

\* enter can be delivered: the key thread is between two keys
C2_CommitPoint == main_pc = "listen" /\ listening /\ key_pc.pc = "idle"

\* C2: a render, and a commit, never uses a cursor or a window that is stale
\* against FilteredRows: in every frame drawn over non-empty rows, and
\* whenever enter can be delivered over non-empty rows, cursor and
\* window_end lie within len(FilteredRows)
C2_NoStaleViewport ==
    /\ (frame.drawn /\ frame.shown.n_rows > 0) =>
           /\ frame.shown.ptr < frame.shown.n_rows
           /\ frame.shown.end_idx <= frame.shown.n_rows
    /\ (C2_CommitPoint /\ FilteredRows # <<>>) =>
           /\ self.ptr < Len(FilteredRows)
           /\ self.end_idx <= Len(FilteredRows)

\* a thread is half way through an operation: it has changed the object and
\* the statements it still has to run will change it again
KeyHalfDone == key_pc.mut /\ sendkey_rest(self, key_pc, console_h) # self
WatcherHalfDone == watcher_pc.mut /\ resize_rest(self, watcher_pc) # self

\* C3: no thread renders while the other is half way through an operation
\* on the object (such as a move that has updated the cursor and not yet
\* the window)
C3_RenderBetweenOperations ==
    [][ /\ WatcherRefresh => ~KeyHalfDone
        /\ KeyRefresh => ~WatcherHalfDone ]_vars

\* C6: esc or 'q' ends the session, with no result, exactly when not
\* searching; while searching esc only cancels the search and 'q' only
\* joins the query, and the session goes on
C6_QuitOnlyWhenNotSearching ==
    [][ /\ \A key \in {ESC, "q"} :
              SendKey(key) =>
                 IF ~self.searching
                 THEN /\ main_pc' = "finally" /\ ~listening' /\ error' = "none"
                      /\ self'.selected = None
                 ELSE /\ main_pc' = "listen" /\ listening'
                      /\ self'.searching = (key = "q")
                      /\ self'.query = IF key = "q" THEN Append(self.query, "q") ELSE <<>>
        /\ (Finish /\ last \in {ESC, "q"}) =>
              /\ main_pc' = "returned" /\ result' = None ]_vars

\* esc, pressed while not searching, has ended a session over several rows
\* with no result
C6_Witness ==
    /\ last = ESC /\ main_pc = "returned" /\ result = None
    /\ ~self.searching /\ Len(self.original_rows) > 1

\* C7: esc while searching leaves searching false, the query empty,
\* FilteredRows the whole dataset in its order, reserved_rows one less, the
\* cursor and window_start 0; and searching = false implies query = "" in
\* every reachable state
C7_Cancel ==
    /\ [][ (SendKey(ESC) /\ self.searching) =>
              /\ ~self'.searching
              /\ self'.query = <<>>
              /\ self'.rows = self.original_rows
              /\ self'.no_row_height = self.no_row_height - 1
              /\ self'.ptr = 0 /\ self'.start_idx = 0 ]_vars
    /\ [](~self.searching => self.query = <<>>)

\* esc has cancelled a search and the session goes on over the whole
\* dataset, drawn by the key handler
C7_Witness ==
    /\ last = ESC /\ main_pc = "listen" /\ listening
    /\ ~self.searching /\ self.query = <<>>
    /\ frame.drawn /\ frame.by = "key"
    /\ Len(self.rows) > 1 /\ self.rows = self.original_rows

\* the rows the matcher accepts on at least one field, in dataset order
Accepted(rows, query) ==
    SelectSeq(rows, LAMBDA r : \E i \in 1..Len(r) : matches(query, r[i]))

\* C8: while searching FilteredRows is exactly the dataset rows the matcher
\* accepts for the query on some field, in dataset order; while not
\* searching it is the dataset
C8_FilterExact ==
    FilteredRows = IF self.searching
                   THEN Accepted(self.original_rows, self.query)
                   ELSE self.original_rows

\* headers are given and some row has another number of fields
ArityMismatch(s) ==
    s.headers # <<>> /\ \E i \in 1..Len(s.original_rows) :
                            Len(s.original_rows[i]) # Len(s.headers)

\* C9: headers whose arity differs from a row's make construction fail with
\* ConfigurationError, before the session starts and before any render
C9_ArityChecked ==
    ArityMismatch(self) =>
        error = "ConfigurationError" /\ main_pc = "new" /\ ~frame.drawn

\* C10: however select() ends, the display has been released by then (an
\* input-source failure reaches the caller only after the release)
C10_DisplayReleased ==
    main_pc \in {"returned", "raised"} => ~self.live_started

\* the display has been given back: exit() has run in a started session
DisplayReleased == main_pc # "new" /\ ~self.live_started

\* C11: when a session ends the stop event is set and the watcher joined
\* before the display is released, the display is released before select()
\* returns, and no refresh() is made on a released display
C11_TerminationOrder ==
    /\ DisplayReleased => (stop_event /\ watcher = "ended")
    /\ main_pc = "returned" => DisplayReleased
    /\ frame.drawn => frame.shown.live

\* the input source has stopped delivering keys: a terminating key, an
\* interrupt or a failure has happened
InputOver == main_pc # "new" /\ ~listening

\* C12: an interrupt while listen_keyboard waits ends the session with the
\* result None; once the input is over the watcher sees the stop event and
\* ends, select() leaves only after the watcher has ended, and nothing
\* changes or draws the object after select() has left
C12_InterruptAndWatcherStop ==
    /\ [][ Interrupt => /\ main_pc' = "finally" /\ ~listening'
                        /\ error' = "none" /\ self'.selected = None ]_vars
    /\ [](main_pc = "returned" /\ last = "interrupt" => result = None)
    /\ [](main_pc \in {"returned", "raised"} =>
              watcher = "ended" /\ watcher_pc = WatcherIdle)
    /\ [][ (main_pc \in {"returned", "raised"}) => UNCHANGED <<self, frame>> ]_vars
    /\ InputOver ~> /\ watcher = "ended"
                    /\ main_pc = IF error = "none" THEN "returned" ELSE "raised"

\* an interrupted session has returned None after the watcher, which had
\* drawn the last frame, ended
C12_Witness ==
    /\ last = "interrupt" /\ main_pc = "returned" /\ result = None
    /\ watcher = "ended" /\ stop_event
    /\ frame.drawn /\ frame.by = "watcher"

\* the viewport of the object
Viewport(s) == <<s.ptr, s.start_idx, s.end_idx>>
Window(s) == <<s.start_idx, s.end_idx>>

\* C13: key down over non-empty FilteredRows is a no-op on the last row;
\* else the cursor goes down by one and, only if it left the window,
\* window_end = cursor + 1 and window_start = max(0, window_end -
\* visible_height), visible_height being the size of the window before
C13_MoveDownWindowSize ==
    [][ (SendKey(DOWN) /\ FilteredRows # <<>>) =>
            IF self.ptr = Len(FilteredRows) - 1
            THEN Viewport(self') = Viewport(self)
            ELSE /\ self'.ptr = self.ptr + 1
                 /\ IF self.ptr + 1 >= self.end_idx
                    THEN /\ self'.end_idx = self.ptr + 2
                         /\ self'.start_idx =
                               Max(0, self.ptr + 2 - (self.end_idx - self.start_idx))
                    ELSE Window(self') = Window(self) ]_vars

\* C14: key up with the cursor above 0 takes the cursor up by one and, only
\* if it left the window, sets window_start = cursor and window_end =
\* min(len(FilteredRows), window_start + visible_height), visible_height
\* being the size of the window before; in every reachable state
C14_MoveUpWindowSize ==
    [][ (SendKey(UP) /\ self.ptr > 0) =>
            /\ self'.ptr = self.ptr - 1
            /\ IF self.ptr - 1 < self.start_idx
               THEN /\ self'.start_idx = self.ptr - 1
                    /\ self'.end_idx =
                          Min(Len(FilteredRows),
                              self.ptr - 1 + (self.end_idx - self.start_idx))
               ELSE Window(self') = Window(self) ]_vars

\* available_height: the terminal height less the reserved rows
AvailableHeight(s, h) == h - s.no_row_height

\* C15: a pass of the watcher over non-empty FilteredRows on a terminal
\* with an available height of at least 1 leaves 0 <= window_start <=
\* cursor < window_end <= len(FilteredRows) and a window no taller than
\* the available height
C15_ResizeKeepsCursorVisible ==
    [][ (WatcherResize /\ FilteredRows # <<>>
           /\ AvailableHeight(self, console_h) >= 1) =>
            /\ ViewportOK(self')
            /\ self'.end_idx - self'.start_idx <= AvailableHeight(self', console_h) ]_vars

\* the watcher has drawn a window that fills a terminal too small for all
\* the rows, slid down to keep the cursor in sight
C15_Witness ==
    /\ frame.drawn /\ frame.by = "watcher" /\ frame.shown = construct_layout(self)
    /\ FilteredRows # <<>> /\ AvailableHeight(self, console_h) >= 1
    /\ self.end_idx - self.start_idx = AvailableHeight(self, console_h)
    /\ self.start_idx > 0 /\ self.start_idx <= self.ptr /\ self.ptr < self.end_idx

\* the window is no taller than the available height
WindowFits(s, h) == s.end_idx - s.start_idx <= AvailableHeight(s, h)

\* a key handler or a pass of the watcher has changed the object
Mutation == (WatcherResize \/ \E key \in Keys : SendKey(key)) /\ self' # self

\* C16: after construction and after every change a key handler or the
\* watcher makes to the object, window_end - window_start <= terminal
\* height - reserved_rows, with or without headers, searching or not
C16_WindowFitsAfterMutation ==
    /\ (main_pc = "new" => WindowFits(self, console_h))
    /\ [][ Mutation => WindowFits(self', console_h') ]_vars

\* C17: in every reachable state reserved_rows is the base, plus 2 when
\* headers are shown, plus 1 when searching
C17_ReservedRows ==
    self.no_row_height = BaseNoRowHeight
                           + (IF self.show_header THEN 2 ELSE 0)
                           + (IF self.searching THEN 1 ELSE 0)

\* esc has cancelled a search under headers and the session goes on
C17_Witness ==
    /\ last = ESC /\ main_pc = "listen" /\ frame.drawn /\ frame.by = "key"
    /\ self.show_header /\ ~self.searching
    /\ self.no_row_height = BaseNoRowHeight + 2

\* C18: no key down takes window_start down and no key up takes window_end
\* up, so neither does a run of them
C18_MonotonicWindow ==
    [][ /\ SendKey(DOWN) => self'.start_idx >= self.start_idx
        /\ SendKey(UP) => self'.end_idx <= self.end_idx ]_vars

\* the handler ran to its end and the session goes on
NoError == error' = "none" /\ main_pc' = "listen" /\ listening'

\* C19: key up with the cursor at 0, key down with the cursor on the last
\* row, and either key over empty FilteredRows leave cursor, window_start
\* and window_end as they were and raise nothing
C19_BoundaryMoves ==
    [][ /\ (SendKey(UP) /\ (self.ptr = 0 \/ FilteredRows = <<>>)) =>
              (Viewport(self') = Viewport(self) /\ NoError)
        /\ (SendKey(DOWN) /\ (self.ptr = Len(FilteredRows) - 1 \/ FilteredRows = <<>>)) =>
              (Viewport(self') = Viewport(self) /\ NoError) ]_vars

\* C20: the cursor is never negative, whatever the terminal height and
\* FilteredRows, and enter never indexes FilteredRows out of range
C20_CursorNonNegative == self.ptr >= 0 /\ error # "IndexError"

====
